---- MODULE Spec2Model ----
(***************************************************************************)
(* A model of pytext/data/data.py: the Batcher and PoolingBatcher row      *)
(* grouping generators, zip_dicts, and the Data orchestrator with its      *)
(* per-stage cursor, its numberized-row cache and its epoch counter.       *)
(*                                                                         *)
(* Python generators are modelled by their suspended state: one pull       *)
(* (next()) runs the generator body to its next yield, to its return or    *)
(* to the exception it raises.  random.shuffle is a nondeterministic       *)
(* choice over all permutations.                                           *)
(***************************************************************************)
EXTENDS Integers, Sequences, FiniteSets, TLC

\* ------------------------------------------------------------ bounds
\* longest row sequence handed to batchify in SpecBatch
MaxLen == 3
\* largest batch-size parameter b; the sizes are (b, b+1, b+2) for TRAIN, EVAL, TEST
MaxBatch == 2
\* largest pool_num_batches
MaxPool == 2
\* longest row stream of a data source
MaxRows == 2
\* largest epoch_size
MaxEpoch == 2
\* number of traversals of Data.batches started in one behaviour
MaxTrav == 2

\* ------------------------------------------------------------ values
Stages == {"TRAIN", "EVAL", "TEST"}

\* Python's None (dict.get of an absent key, an unset option): an integer
\* outside every range of values the model uses
None == 0 - 1000

\* the empty dict: zip_dicts([]), and the placeholder where no batch is produced
EmptyDict == [k \in {} |-> 0]

Min(a, b) == IF a < b THEN a ELSE b

\* rows handed to batchify directly: dicts, one of them lacking field "b"
RowSet ==
  { [a |-> 1, b |-> 1], [a |-> 1, b |-> 2], [a |-> 2] }

SeqsUpTo(S, n) == UNION { [1..k -> S] : k \in 0..n }

\* ------------------------------------------------------------ zip_dicts
\* d.get(key)
DictGet(d, key) == IF key \in DOMAIN d THEN d[key] ELSE None

\* mutant of zip_dicts: the keys of the first row in place of the union of all keys
zip_dicts_first_keys(dicts) ==
  LET all_keys == IF dicts = << >> THEN {} ELSE DOMAIN dicts[1]
  IN  [key \in all_keys |-> [i \in 1..Len(dicts) |-> DictGet(dicts[i], key)]]

zip_dicts(dicts) ==
  LET all_keys == UNION { DOMAIN dicts[i] : i \in 1..Len(dicts) }
  IN  [key \in all_keys |-> [i \in 1..Len(dicts) |-> DictGet(dicts[i], key)]]

\* ------------------------------------------------------------ Batcher
\* Batcher.__init__: stores the three sizes, validates nothing, never raises
BatcherInit(train_batch_size, eval_batch_size, test_batch_size) ==
  [ kind             |-> "Batcher",
    raised           |-> FALSE,
    batch_sizes      |-> [s \in Stages |->
                            CASE s = "TRAIN" -> train_batch_size
                              [] s = "TEST"  -> test_batch_size
                              [] OTHER       -> eval_batch_size],
    pool_num_batches |-> 1 ]

\* `pool_num_batches or 1`: None and 0 are falsy, a negative number is not
OrOne(pool_num_batches) ==
  IF pool_num_batches = None \/ pool_num_batches = 0 THEN 1 ELSE pool_num_batches

\* PoolingBatcher.__init__
PoolingBatcherInit(train_batch_size, eval_batch_size, test_batch_size, pool_num_batches) ==
  [ BatcherInit(train_batch_size, eval_batch_size, test_batch_size)
      EXCEPT !.kind = "PoolingBatcher",
             !.pool_num_batches = OrOne(pool_num_batches) ]

\* the sort key of a row: the lambda of Data._get_batches, tensorizers[k].sort_key(row[k]);
\* the scalar tensorizer of the model sorts by the numberized value itself
SortKeyRaises(sort_key, rows) ==
  \E i \in 1..Len(rows) : sort_key \notin DOMAIN rows[i]

KeyOf(sort_key, row) == row[sort_key]

\* list.sort(key=..., reverse=True): stable, descending
RECURSIVE InsertDesc(_, _, _)
InsertDesc(sorted, x, sort_key) ==
  IF sorted = << >> THEN << x >>
  ELSE IF KeyOf(sort_key, Head(sorted)) < KeyOf(sort_key, x)
       THEN << x >> \o sorted
       ELSE << Head(sorted) >> \o InsertDesc(Tail(sorted), x, sort_key)

RECURSIVE SortDesc(_, _)
SortDesc(rows, sort_key) ==
  IF rows = << >> THEN << >>
  ELSE InsertDesc(SortDesc(SubSeq(rows, 1, Len(rows) - 1), sort_key),
                  rows[Len(rows)], sort_key)

\* no sort key is Python's None; a field name otherwise
NoKey == "None"

\* mutant of GroupIterNext: zip in place of zip_longest, a short last group is dropped
GroupIterNextDropShort(it, group_size, sort_key) ==
  IF group_size <= 0 \/ Len(it) < group_size
  THEN [res |-> "stop", group |-> << >>, it |-> << >>]
  ELSE LET group == SubSeq(it, 1, group_size)
           rest  == SubSeq(it, group_size + 1, Len(it))
       IN  IF sort_key = NoKey
           THEN [res |-> "group", group |-> group, it |-> rest]
           ELSE [res |-> "group", group |-> SortDesc(group, sort_key), it |-> rest]

\* An element of a lazy row stream whose production raises: pulling it from the
\* iterator raises in place of returning a row
RaiseMarker == [ raise |-> TRUE ]

IsRaise(row) == "raise" \in DOMAIN row

\* One round of Batcher._group_iter over the remaining input `it`:
\* zip_longest over group_size copies of one iterator.  No iterator at all
\* (group_size <= 0) or an exhausted one ends the loop; otherwise the next
\* group_size rows (fewer at the end) form the group, sorted when a key is given.
\* An exception raised by the input iterator while the group is read ends the
\* generator and the input iterator with it.
GroupIterNext(it, group_size, sort_key) ==
  IF group_size <= 0 \/ it = << >>
  THEN [res |-> "stop", group |-> << >>, it |-> it]
  ELSE LET n     == Min(group_size, Len(it))
           group == SubSeq(it, 1, n)
           rest  == SubSeq(it, n + 1, Len(it))
       IN  IF \E i \in 1..n : IsRaise(group[i])
           THEN [res |-> "raise", group |-> << >>, it |-> << >>]
           ELSE IF sort_key = NoKey
           THEN [res |-> "group", group |-> group, it |-> rest]
           ELSE IF SortKeyRaises(sort_key, group)
                THEN [res |-> "raise", group |-> << >>, it |-> rest]
                ELSE [res |-> "group", group |-> SortDesc(group, sort_key), it |-> rest]

\* mutant of NumBatches: floor in place of ceil, the partial last batch of a pool is lost
NumBatchesFloor(len, batch_size) ==
  IF batch_size > 0 THEN len \div batch_size ELSE 0

\* math.ceil(len(pool) / batch_size) as the length of range(...): a negative
\* batch size gives a quotient <= 0 and an empty range
NumBatches(len, batch_size) ==
  IF batch_size > 0 THEN (len + batch_size - 1) \div batch_size ELSE 0

\* pool[batch_size * i : batch_size * (i + 1)]
PoolSlice(pool, batch_size, i) ==
  SubSeq(pool, batch_size * i + 1, Min(batch_size * (i + 1), Len(pool)))

\* random.shuffle: every permutation of 1..n
Perms(n) == { p \in [1..n -> 1..n] : \A i, j \in 1..n : i # j => p[i] # p[j] }

\* mutant of PoolBatches: the rows of the pool are shuffled also when a sort key is given
PoolBatchesShuffleRows(pool, batch_size, sort_key) ==
  { [k \in 1..NumBatches(Len(pool), batch_size) |->
       PoolSlice([i \in 1..Len(pool) |-> pool[p[i]]], batch_size, k - 1)]
    : p \in Perms(Len(pool)) }

\* The batches of one pool in emission order, one sequence per shuffle outcome:
\* with a sort key the batch indices are shuffled, without one the pool's rows.
PoolBatches(pool, batch_size, sort_key) ==
  LET nb == NumBatches(Len(pool), batch_size)
  IN  IF sort_key # NoKey
      THEN { [k \in 1..nb |-> PoolSlice(pool, batch_size, p[k] - 1)] : p \in Perms(nb) }
      ELSE { [k \in 1..nb |->
                PoolSlice([i \in 1..Len(pool) |-> pool[p[i]]], batch_size, k - 1)]
             : p \in Perms(Len(pool)) }

\* A suspended batchify generator: the batcher and arguments it was called with,
\* the unread input, and (PoolingBatcher) the batches of the current pool not
\* yet yielded.
BatchifyCall(b, iterable, sort_key, stage) ==
  [ batcher  |-> b,
    it       |-> iterable,
    sort_key |-> sort_key,
    stage    |-> stage,
    pending  |-> << >>,
    status   |-> "alive" ]

\* next() on Batcher.batchify: the set holds the single outcome
BatcherNext(g) ==
  LET batch_size == g.batcher.batch_sizes[g.stage]
      r          == GroupIterNext(g.it, batch_size, g.sort_key)
  IN  { CASE r.res = "group" ->
               [res |-> "yield", rows |-> r.group, out |-> zip_dicts(r.group),
                g |-> [g EXCEPT !.it = r.it]]
          [] r.res = "raise" ->
               [res |-> "raise", rows |-> << >>, out |-> EmptyDict,
                g |-> [g EXCEPT !.it = r.it, !.status = "dead"]]
          [] OTHER ->
               [res |-> "stop", rows |-> << >>, out |-> EmptyDict,
                g |-> [g EXCEPT !.it = r.it, !.status = "dead"]] }

\* next() on PoolingBatcher.batchify: one outcome per shuffle.  A pool that
\* yields no batch (negative batch size with a positive pool size) is read and
\* the loop goes on to the next pool.
RECURSIVE PoolingNext(_)
PoolingNext(g) ==
  IF g.pending # << >>
  THEN { [res |-> "yield", rows |-> Head(g.pending), out |-> zip_dicts(Head(g.pending)),
          g |-> [g EXCEPT !.pending = Tail(g.pending)]] }
  ELSE LET batch_size == g.batcher.batch_sizes[g.stage]
           pool_size  == batch_size * g.batcher.pool_num_batches
           r          == GroupIterNext(g.it, pool_size, g.sort_key)
       IN  CASE r.res = "group" ->
                  UNION { PoolingNext([g EXCEPT !.it = r.it, !.pending = bs])
                          : bs \in PoolBatches(r.group, batch_size, g.sort_key) }
             [] r.res = "raise" ->
                  { [res |-> "raise", rows |-> << >>, out |-> EmptyDict,
                     g |-> [g EXCEPT !.it = r.it, !.status = "dead"]] }
             [] OTHER ->
                  { [res |-> "stop", rows |-> << >>, out |-> EmptyDict,
                     g |-> [g EXCEPT !.it = r.it, !.status = "dead"]] }

\* next() on the generator batcher.batchify(...) returned; a finished generator
\* raises StopIteration again
BatchifyNext(g) ==
  IF g.status = "dead"
  THEN { [res |-> "stop", rows |-> << >>, out |-> EmptyDict, g |-> g] }
  ELSE IF g.batcher.kind = "PoolingBatcher" THEN PoolingNext(g) ELSE BatcherNext(g)

\* ------------------------------------------------------------ state
VARIABLES
  batcher,    \* SpecBatch: the batcher under test (kind "none" before construction)
  gen,        \* SpecBatch: the generator batchify returned
  input,      \* SpecBatch: the row sequence batchify was called with
  emitted,    \* SpecBatch: the batches pulled so far, as rows and as zip_dicts output
  ended,      \* SpecBatch: how the generator ended: "no", "stop" or "raise"
  cfg,        \* Data: the constructor arguments and the configured data source
  num_batches,      \* Data: self.num_batches
  batch,            \* Data: self.batch, stage -> cursor object (0 is None)
  heap,             \* Data: the cursor objects (pad_and_tensorize_batches generators)
  numberized_cache, \* Data: self.numberized_cache
  reads,      \* Data: physical reads of each stream of a mutating configured source
  trav,       \* Data: the generators Data.batches returned, in order of creation:
              \*       the latest two (an older one has been dropped by the caller)
  started,    \* Data: how many traversals have been created
  sched       \* Data: how the caller pulls: "sequential" (a traversal is left for
              \*       good once the next is created) or "interleaved"

bvars == << batcher, gen, input, emitted, ended >>

dvars == << cfg, num_batches, batch, heap, numberized_cache, reads, trav, started, sched >>

vars == << batcher, gen, input, emitted, ended,
           cfg, num_batches, batch, heap, numberized_cache, reads, trav, started, sched >>

NoBatcher ==
  [ kind |-> "none", raised |-> FALSE,
    batch_sizes |-> [s \in Stages |-> 0], pool_num_batches |-> 0 ]

NoGen == [ BatchifyCall(NoBatcher, << >>, NoKey, "TRAIN") EXCEPT !.status = "none" ]

\* the batch sizes tried: non-positive ones included, the constructor takes any
BatchParams == { 0 - 1, 0 } \cup 1..MaxBatch

\* the pool_num_batches tried: None, negative, zero and positive
PoolParams == { None, 0 - 1, 0 } \cup 1..MaxPool

\* ------------------------------------------------------------ Data: collaborators
\* the keys of the tensorizers dict given to Data
Tensorizers == {"a", "b"}

\* bool(x) of an optional integer
Truthy(x) == x # None /\ x # 0

SrcNo(src) == IF src = "cfg" THEN 1 ELSE 2

StageNo(stage) == CASE stage = "TRAIN" -> 1 [] stage = "EVAL" -> 2 [] OTHER -> 3

\* A raw row: its text value tells the source, the stage, the version of the
\* stream (which physical read) and the position it comes from.
RawRow(src, stage, ver, i) ==
  [ text |-> 1000 * SrcNo(src) + 100 * StageNo(stage) + 10 * ver + i ]

\* The row stream a source returns for a stage at physical read number k.
\* The explicit source "alt" and a static configured source return the same rows
\* every time; a mutating configured source returns other rows, of another
\* length, on every read.
StreamLen(c, src, k) ==
  IF src = "alt" THEN MaxRows
  ELSE IF c.src_mutates THEN (c.src_len + k) % (MaxRows + 1) ELSE c.src_len

StreamVer(c, src, k) == IF src = "cfg" /\ c.src_mutates THEN k ELSE 0

\* the last row of the configured source's stream for stage c.bad holds no
\* value the tensorizer can convert
BadRow == [ text |-> None ]

Stream(c, src, stage, k) ==
  [ i \in 1..StreamLen(c, src, k) |->
      IF src = "cfg" /\ c.bad = stage /\ i = StreamLen(c, src, k)
      THEN BadRow
      ELSE RawRow(src, stage, StreamVer(c, src, k), i) ]

\* tensorizer.numberize(row): "a" reads the numeric column, "b" looks a label up
Numberize(name, row) == IF name = "a" THEN row.text ELSE (row.text % 2) + 1

\* tensorizer.tensorize(column): the column with its length (its shape)
Tensorize(name, column) == << Len(column), column >>

\* tensorizer.numberize(row) raises on a row without a value
NumberizeRaises(row) == row.text = None

\* Data.numberize_rows: a generator; the element of a row whose numberize
\* raises is the raise itself
numberize_rows(rows) ==
  [ i \in 1..Len(rows) |->
      IF NumberizeRaises(rows[i])
      THEN RaiseMarker
      ELSE [ name \in Tensorizers |-> Numberize(name, rows[i]) ] ]

\* list(generator) raises when the generator does
ListRaises(lazy) == \E i \in 1..Len(lazy) : IsRaise(lazy[i])

\* the rows a generator has produced before it raises
RECURSIVE ProducedBeforeRaise(_)
ProducedBeforeRaise(lazy) ==
  IF lazy = << >> \/ IsRaise(Head(lazy)) THEN << >>
  ELSE << Head(lazy) >> \o ProducedBeforeRaise(Tail(lazy))

\* ------------------------------------------------------------ Data: state
\* the most cursor objects alive at once: one per stage and one held by each
\* of the two traversals kept
MaxCur == 3 + 2

FreeCursor == [ g |-> NoGen, pos |-> 0 ]

\* fills records how many times the entry was assigned (2 stands for more than
\* once); the code does not read it
NoCache == [ present |-> FALSE, rows |-> << >>, fills |-> 0 ]

\* the batchers a Data instance is configured with: a plain one and a pooling
\* one (pools of one batch), each with three different sizes
DataBatchers ==
  { BatcherInit(1, 2, 3), PoolingBatcherInit(2, 3, 4, 1) }

\* the sort_key arguments: None, a tensorizer name, a name that is no tensorizer
SortKeyArgs == { NoKey, "a", "zz" }

Configs ==
  [ batcher     : DataBatchers,
    sort_key    : SortKeyArgs,
    epoch_size  : { None } \cup 1..MaxEpoch,
    in_memory   : BOOLEAN,
    src_len     : 0..MaxRows,
    src_mutates : BOOLEAN,
    bad         : { "none" } \cup Stages ]

NoConfig ==
  [ batcher |-> NoBatcher, sort_key |-> NoKey, epoch_size |-> None,
    in_memory |-> FALSE, src_len |-> 0, src_mutates |-> FALSE, bad |-> "none" ]

\* no Data instance (the state of the Data variables in SpecBatch)
DataIdle ==
  /\ cfg = NoConfig
  /\ num_batches = 0
  /\ batch = [ s \in Stages |-> 0 ]
  /\ heap = [ id \in 1..MaxCur |-> FreeCursor ]
  /\ numberized_cache = [ s \in Stages |-> NoCache ]
  /\ reads = [ s \in Stages |-> 0 ]
  /\ trav = << >>
  /\ started = 0
  /\ sched = "sequential"

\* Data.__init__: stores its arguments, no cursor, an empty cache, and runs
\* initialize_tensorizers over the train stream (one physical read of it)
DataInit ==
  /\ cfg \in Configs
  /\ num_batches = 0
  /\ batch = [ s \in Stages |-> 0 ]
  /\ heap = [ id \in 1..MaxCur |-> FreeCursor ]
  /\ numberized_cache = [ s \in Stages |-> NoCache ]
  /\ reads = [ s \in Stages |-> IF s = "TRAIN" /\ cfg.src_mutates THEN 1 ELSE 0 ]
  /\ trav = << >>
  /\ started = 0

\* the mutable fields of the Data instance, as one value
World == [ num_batches |-> num_batches, batch |-> batch, heap |-> heap,
           numberized_cache |-> numberized_cache, reads |-> reads ]

\* the generator object Data.batches(stage, data_source) returns, not yet run.
\* no, count, ylog, out, derived, reused, dropped, disturbed, raised_in and spin
\* (the parity of the rounds of `while True` inside the running pull) record
\* what the traversal did; the code does not read them.
NewTraversal(no, stage, ds) ==
  [ no |-> no, pc |-> "new", stage |-> stage, ds |-> ds, it |-> 0,
    count |-> 0, ylog |-> << >>, out |-> EmptyDict,
    derived |-> 0, reused |-> FALSE, dropped |-> 0,
    disturbed |-> FALSE, raised_in |-> "none", spin |-> 0 ]

\* ------------------------------------------------------------ Data._get_batches
\* `if not numberized_rows`: a missing entry and an empty list both miss
CacheHit(cached) == cached.present /\ cached.rows # << >>

\* the stage batchify is called with: _get_batches passes none, the default applies
BatchifyStage(stage) == "TRAIN"

\* the sort_key argument of batchify: the lambda when self.sort_key is set
SortKeyArg(c) == IF c.sort_key = NoKey THEN NoKey ELSE c.sort_key

\* the smallest id no cursor object uses
NewId(W) == CHOOSE id \in 1..MaxCur :
              /\ W.heap[id] = FreeCursor
              /\ \A j \in 1..MaxCur : W.heap[j] = FreeCursor => id <= j

\* mutant of CacheAfterFailure: the rows numberized before the failure are cached
CachePartial(cached, partial) ==
  [ present |-> TRUE, rows |-> partial, fills |-> Min(cached.fills + 1, 2) ]

\* line 273 raising: the assignment of line 274 is not reached, the entry stays
CacheAfterFailure(cached, partial) == cached

\* Data._get_batches(stage, data_source): returns the live cursor of the stage,
\* or derives one (reading the stream, through the cache when in_memory) and
\* stores it.  With in_memory, list(numberize_rows(rows)) runs the converters
\* here and a raise of theirs leaves _get_batches before anything is stored.
get_batches(W, c, stage, ds) ==
  IF W.batch[stage] # 0
  THEN [ W |-> W, it |-> W.batch[stage], derived |-> FALSE, raised |-> FALSE ]
  ELSE LET cached   == W.numberized_cache[stage]
           hit      == c.in_memory /\ CacheHit(cached)
           rows     == Stream(c, ds, stage, W.reads[stage])
           numberized_rows == IF hit THEN cached.rows ELSE numberize_rows(rows)
           id       == NewId(W)
           g        == BatchifyCall(c.batcher, numberized_rows, SortKeyArg(c),
                                    BatchifyStage(stage))
           read     == [ W EXCEPT !.reads[stage] =
                           IF ~hit /\ ds = "cfg" /\ c.src_mutates
                           THEN (@ + 1) % (MaxRows + 1)
                           ELSE @ ]
       IN  IF c.in_memory /\ ~hit /\ ListRaises(numberized_rows)
           THEN [ W |-> [ read EXCEPT !.numberized_cache[stage] =
                            CacheAfterFailure(cached, ProducedBeforeRaise(numberized_rows)) ],
                  it |-> 0, derived |-> FALSE, raised |-> TRUE ]
           ELSE
           [ W |-> [ W EXCEPT
                       !.batch[stage] = id,
                       !.heap[id] = [ g |-> g, pos |-> 0 ],
                       !.numberized_cache[stage] =
                          IF c.in_memory /\ ~hit
                          THEN [ present |-> TRUE, rows |-> numberized_rows,
                                 fills |-> Min(cached.fills + 1, 2) ]
                          ELSE @,
                       !.reads[stage] =
                          IF ~hit /\ ds = "cfg" /\ c.src_mutates
                          THEN (@ + 1) % (MaxRows + 1)
                          ELSE @ ],
             it |-> id, derived |-> TRUE, raised |-> FALSE ]

\* mutant of pad_and_tensorize: the tensor of the first tensorizer only
pad_and_tensorize_first_only(zipped) ==
  [ name \in {"a"} |-> Tensorize(name, zipped[name]) ]

\* pad_and_tensorize_batches: one tensor per tensorizer, from the batch's column
pad_and_tensorize(zipped) ==
  [ name \in Tensorizers |-> Tensorize(name, zipped[name]) ]

\* next() on a cursor: the next batch of batchify, tensorized
CursorNext(cur) ==
  { IF o.res = "yield"
    THEN IF Tensorizers \subseteq DOMAIN o.out
         THEN [ res |-> "yield", rows |-> o.rows, out |-> pad_and_tensorize(o.out),
                cur |-> [ g |-> o.g, pos |-> cur.pos + 1 ] ]
         ELSE [ res |-> "raise", rows |-> << >>, out |-> EmptyDict,
                cur |-> [ g |-> [ o.g EXCEPT !.status = "dead" ], pos |-> cur.pos ] ]
    ELSE [ res |-> o.res, rows |-> << >>, out |-> EmptyDict,
           cur |-> [ g |-> o.g, pos |-> cur.pos ] ]
    : o \in BatchifyNext(cur.g) }

\* ------------------------------------------------------------ Data.batches
\* line 318: the epoch bound
EpochBoundHit(stage, n, epoch_size) == stage = "TRAIN" /\ n = epoch_size

\* mutant of ReturnsAtExhaustion: TRAIN with an epoch size ends at the end of a pass too
ReturnsAlways(stage, epoch_size) == TRUE

\* line 324: the traversal ends when its cursor is exhausted
ReturnsAtExhaustion(stage, epoch_size) == stage # "TRAIN" \/ ~Truthy(epoch_size)

\* cursor objects nothing refers to any more are dropped
Collect(W, travs) ==
  [ W EXCEPT !.heap =
      [ id \in 1..MaxCur |->
          IF \/ \E s \in Stages : W.batch[s] = id
             \/ \E t \in 1..Len(travs) : travs[t].it = id
          THEN W.heap[id] ELSE FreeCursor ] ]

\* the cursor has no further batch: the batch just pulled was the last of its pass
PassOver(cur) == cur.g.it = << >> /\ cur.g.pending = << >>

\* mutant of ListAfterGroup: the list the rows are read from is reordered in place
ListReorderedInPlace(list, group) ==
  [ i \in 1..Len(list) |-> list[Len(list) + 1 - i] ]

\* The list batchify iterates over (with in_memory, the cached list) after a
\* group was cut from it: line 68 builds the group as a new list, and the sort
\* of line 70 and the shuffle of line 122 act on that new list.
ListAfterGroup(list, group) == list

\* One round of the for loop of Data.batches: next() on the iterator the
\* traversal holds, then lines 318-325.  The set holds one outcome per shuffle.
ForNext(W, c, tr) ==
  { LET W1 == [ W EXCEPT !.heap[tr.it] = o.cur,
                         !.numberized_cache[tr.stage].rows =
                            IF c.in_memory THEN ListAfterGroup(@, o.rows) ELSE @ ]
    IN  CASE o.res = "yield" ->
               IF EpochBoundHit(tr.stage, W.num_batches, c.epoch_size)
               THEN [ W  |-> [ W1 EXCEPT !.num_batches = 0 ],
                      tr |-> [ tr EXCEPT !.pc = "done", !.it = 0, !.spin = 0,
                                         !.dropped = @ + 1 ] ]
               ELSE [ W  |-> [ W1 EXCEPT !.num_batches = @ + 1 ],
                      tr |-> [ tr EXCEPT !.pc = "at_yield",
                                         !.spin = 0,
                                         !.count = @ + 1,
                                         !.out = o.out,
                                         !.ylog = Append(@, [ rows |-> o.rows,
                                                              pos |-> o.cur.pos,
                                                              last |-> PassOver(o.cur) ]) ] ]
          [] o.res = "stop" ->
               [ W  |-> [ W1 EXCEPT !.batch[tr.stage] = 0 ],
                 tr |-> IF ReturnsAtExhaustion(tr.stage, c.epoch_size)
                        THEN [ tr EXCEPT !.it = 0, !.pc = "done", !.spin = 0 ]
                        ELSE [ tr EXCEPT !.it = 0, !.pc = "loop" ] ]
          [] OTHER ->
               [ W  |-> W1,
                 tr |-> [ tr EXCEPT !.pc = "raised", !.it = 0, !.spin = 0,
                                    !.raised_in = "pull" ] ]
    : o \in CursorNext(W.heap[tr.it]) }

\* the data source of a traversal: `data_source or self.data_source`
SourceOf(tr) == IF tr.ds = "none" THEN "cfg" ELSE tr.ds

\* The head of `while True`: line 317 calls _get_batches and the for loop pulls
\* the first batch from the iterator it returns; a raise of _get_batches leaves
\* the generator.
LoopHead(W, c, tr) ==
  LET r   == get_batches(W, c, tr.stage, SourceOf(tr))
      tr1 == [ tr EXCEPT !.it = r.it,
                         !.derived = IF r.derived THEN Min(@ + 1, MaxEpoch + 2) ELSE @,
                         !.reused  = IF tr.pc = "new" THEN ~r.derived ELSE @ ]
  IN  IF r.raised
      THEN { [ W |-> r.W, tr |-> [ tr EXCEPT !.pc = "raised", !.spin = 0,
                                             !.raised_in = "derive" ] ] }
      ELSE ForNext(r.W, c, tr1)

\* the state after traversal t moved: the other traversals that are suspended
\* at a yield have been interleaved with
Commit(t, o) ==
  LET travs == [ u \in 1..Len(trav) |->
                   IF u = t THEN o.tr
                   ELSE IF trav[u].pc = "at_yield"
                        THEN [ trav[u] EXCEPT !.disturbed = TRUE ]
                        ELSE trav[u] ]
      W     == Collect(o.W, travs)
  IN  /\ trav' = travs
      /\ num_batches' = W.num_batches
      /\ batch' = W.batch
      /\ heap' = W.heap
      /\ numberized_cache' = W.numberized_cache
      /\ reads' = W.reads
      /\ UNCHANGED << cfg, started, sched, bvars >>

\* no traversal is pulled beyond this many batches (never reached by a caller
\* that finishes or leaves a traversal before it starts the next)
YieldCap == MaxEpoch + MaxRows

\* the interpreter runs one generator at a time: none is inside its body
NoneRunning == \A t \in 1..Len(trav) : trav[t].pc # "loop"

\* data.batches(stage) or data.batches(stage, data_source=D): creates the
\* generator, runs nothing
StartTraversal ==
  /\ NoneRunning
  /\ started < MaxTrav
  /\ \E stage \in Stages, ds \in { "none", "alt" } :
       LET kept  == IF Len(trav) = 2 THEN Tail(trav) ELSE trav
           travs == Append(kept, NewTraversal(started + 1, stage, ds))
       IN  /\ trav' = travs
           /\ heap' = Collect(World, travs).heap
  /\ started' = started + 1
  /\ UNCHANGED << cfg, num_batches, batch, numberized_cache, reads, sched, bvars >>

\* The caller's next() on a traversal: the first one runs lines 314-315 and
\* enters the loop, a later one resumes the for loop after the yield.
PullTraversal ==
  /\ NoneRunning
  /\ \E t \in 1..Len(trav) :
       /\ trav[t].pc \in { "new", "at_yield" }
       /\ sched = "interleaved" \/ t = Len(trav)
       /\ trav[t].count < YieldCap
       /\ \E o \in ( IF trav[t].pc = "new"
                     THEN LoopHead([ World EXCEPT !.num_batches = 0 ], cfg, trav[t])
                     ELSE ForNext(World, cfg, trav[t]) ) :
            Commit(t, o)

\* Inside a pull, after an exhausted pass of TRAIN with an epoch size: the
\* `while True` loop goes round and derives the next pass.
LoopAgain ==
  \E t \in 1..Len(trav) :
    /\ trav[t].pc = "loop"
    /\ \E o \in LoopHead(World, cfg, [ trav[t] EXCEPT !.spin = 1 - @ ]) : Commit(t, o)

\* ------------------------------------------------------------ SpecBatch
BatchIdle ==
  /\ batcher = NoBatcher
  /\ gen = NoGen
  /\ input = << >>
  /\ emitted = << >>
  /\ ended = "no"

InitBatch ==
  /\ BatchIdle
  /\ DataIdle

\* Batcher(b, b + 1, b + 2)
NewBatcher ==
  /\ batcher.kind = "none"
  /\ \E b \in BatchParams : batcher' = BatcherInit(b, b + 1, b + 2)
  /\ UNCHANGED << gen, input, emitted, ended, dvars >>

\* PoolingBatcher(b, b + 1, b + 2, p)
NewPoolingBatcher ==
  /\ batcher.kind = "none"
  /\ \E b \in BatchParams, p \in PoolParams :
       batcher' = PoolingBatcherInit(b, b + 1, b + 2, p)
  /\ UNCHANGED << gen, input, emitted, ended, dvars >>

\* batcher.batchify(rows, sort_key, stage): creates the generator, runs nothing
CallBatchify ==
  /\ batcher.kind # "none"
  /\ ~batcher.raised
  /\ gen.status = "none"
  /\ \E rows \in SeqsUpTo(RowSet, MaxLen), sort_key \in {NoKey, "a"}, stage \in Stages :
       /\ gen' = BatchifyCall(batcher, rows, sort_key, stage)
       /\ input' = rows
  /\ UNCHANGED << batcher, emitted, ended, dvars >>

\* next() on the generator
PullBatch ==
  /\ gen.status = "alive"
  /\ \E o \in BatchifyNext(gen) :
       /\ gen' = o.g
       /\ emitted' = IF o.res = "yield"
                     THEN Append(emitted, [rows |-> o.rows, out |-> o.out])
                     ELSE emitted
       /\ ended' = IF o.res = "yield" THEN "no" ELSE o.res
  /\ UNCHANGED << batcher, input, dvars >>

NextBatch == NewBatcher \/ NewPoolingBatcher \/ CallBatchify \/ PullBatch

SpecBatch == InitBatch /\ [][NextBatch]_vars

\* ------------------------------------------------------------ SpecZip
\* the rows zip_dicts is called with directly: any of the two fields may be absent
ZipRows ==
  RowSet \cup { [b |-> 2], [a |-> 2, b |-> 1] }

\* zip_dicts(rows): input holds the argument, emitted the result
CallZipDicts ==
  /\ \E rows \in SeqsUpTo(ZipRows, MaxLen) :
       /\ input' = rows
       /\ emitted' = << [rows |-> rows, out |-> zip_dicts(rows)] >>
  /\ ended' = "zip"
  /\ UNCHANGED << batcher, gen, dvars >>

SpecZip == InitBatch /\ [][CallZipDicts]_vars

\* ------------------------------------------------------------ Spec: the Data instance
\* a Data instance whose converters accept every row, pulled by a caller that
\* finishes or leaves a traversal before it starts the next
Init ==
  /\ BatchIdle
  /\ DataInit
  /\ cfg.bad = "none"
  /\ sched = "sequential"

Next == StartTraversal \/ PullTraversal \/ LoopAgain

Spec == Init /\ [][Next]_vars

\* ------------------------------------------------------------ SpecLive
\* Data instances with an epoch size and the plain batcher, without a sort
\* key, over a static source.  A generator that is
\* inside its body keeps running: the round of `while True` it has reached is
\* taken.
InitLive ==
  /\ Init
  /\ Truthy(cfg.epoch_size)
  /\ ~cfg.src_mutates
  /\ cfg.sort_key = NoKey
  /\ cfg.batcher.kind = "Batcher"

SpecLive == InitLive /\ [][Next]_vars /\ WF_vars(LoopAgain)

\* ------------------------------------------------------------ SpecInterleave
\* a caller that holds several traversals and pulls them in any order
InitInterleave ==
  /\ BatchIdle
  /\ DataInit
  /\ cfg.bad = "none"
  /\ sched = "interleaved"

SpecInterleave == InitInterleave /\ [][Next]_vars

\* ------------------------------------------------------------ SpecFail
\* a Data instance one of whose streams holds a row a converter raises on
InitFail ==
  /\ BatchIdle
  /\ DataInit
  /\ cfg.bad # "none"
  /\ sched = "sequential"

SpecFail == InitFail /\ [][Next]_vars

\* ------------------------------------------------------------ properties: helpers
CeilDiv(n, d) == IF n % d = 0 THEN n \div d ELSE (n \div d) + 1

FieldNames == {"a", "b"}

\* the number of rows a columnar batch holds
BatchRowCount(out) ==
  IF DOMAIN out = {} THEN 0 ELSE Len(out[CHOOSE k \in DOMAIN out : TRUE])

\* row i of a columnar batch, field k (None where the batch has no such column)
BatchCell(out, i, k) == IF k \in DOMAIN out THEN out[k][i] ELSE None

RECURSIVE Flatten(_)
Flatten(seqs) == IF seqs = << >> THEN << >> ELSE Head(seqs) \o Flatten(Tail(seqs))

NonIncreasing(rows, sort_key) ==
  \A i \in 1..(Len(rows) - 1) : KeyOf(sort_key, rows[i]) >= KeyOf(sort_key, rows[i + 1])

Occurrences(rows, r) == Cardinality({ i \in 1..Len(rows) : rows[i] = r })

SameRows(xs, ys) ==
  /\ Len(xs) = Len(ys)
  /\ \A i \in 1..Len(xs) : Occurrences(xs, xs[i]) = Occurrences(ys, xs[i])

GenBatchSize == gen.batcher.batch_sizes[gen.stage]

C5_PoolSortedUpToBatchOrder ==
  ( /\ gen.status = "dead"
    /\ batcher.kind = "PoolingBatcher"
    /\ gen.sort_key # NoKey
    /\ GenBatchSize >= 1
    /\ batcher.pool_num_batches >= 1 )
  => LET N  == Len(input)
         B  == GenBatchSize
         P  == batcher.pool_num_batches
         ps == B * P
     IN  /\ ended = "stop"
         /\ \A j \in 1..Len(emitted) : NonIncreasing(emitted[j].rows, gen.sort_key)
         /\ \A k \in 1..CeilDiv(N, ps) :
              LET lo  == (k - 1) * ps
                  len == Min(ps, N - lo)
                  nbk == CeilDiv(len, B)
                  off == (k - 1) * P
              IN  /\ off + nbk <= Len(emitted)
                  /\ \E p \in Perms(nbk) :
                       LET cat == Flatten([i \in 1..nbk |-> emitted[off + p[i]].rows])
                       IN  /\ NonIncreasing(cat, gen.sort_key)
                           /\ SameRows(cat, SubSeq(input, lo + 1, lo + len))
                           /\ \A i \in 1..(nbk - 1) : Len(emitted[off + p[i]].rows) = B

\* a finished sorted pool of 3 rows in 2 batches, emitted in the order that is
\* not the partition order (the smaller keys first)
C5_Witness ==
  /\ gen.status = "dead"
  /\ batcher.kind = "PoolingBatcher"
  /\ gen.sort_key # NoKey
  /\ GenBatchSize = 2
  /\ batcher.pool_num_batches = 2
  /\ Len(input) = 3
  /\ Len(emitted) = 2
  /\ Len(emitted[1].rows) = 1
  /\ KeyOf(gen.sort_key, emitted[1].rows[1]) < KeyOf(gen.sort_key, emitted[2].rows[1])

\* ------------------------------------------------------------ C9
\* C9: constructing a Batcher or PoolingBatcher with a train, eval or test
\* batch size that is zero or negative reports an error at construction, so
\* batchify is never called on a batcher with a non-positive batch size.
C9_NonPositiveBatchSizeRejected ==
  ( /\ batcher.kind # "none"
    /\ \E s \in Stages : batcher.batch_sizes[s] <= 0 )
  => ( batcher.raised /\ gen.status = "none" )

\* ------------------------------------------------------------ C10
\* C10: a PoolingBatcher never holds a pool size below 1 batch (an unset, zero
\* or negative pool_num_batches is replaced by 1), and with a batch size >= 1
\* its batchify makes progress: the finished generator has emitted every input row.
C10_PoolSizeCoercedToOne ==
  batcher.kind = "PoolingBatcher"
  => /\ batcher.pool_num_batches >= 1
     /\ ( gen.status = "dead" /\ gen.sort_key = NoKey /\ GenBatchSize >= 1 )
        => SameRows(Flatten([j \in 1..Len(emitted) |-> emitted[j].rows]), input)

\* ------------------------------------------------------------ properties of Data: helpers
\* the rows a traversal has yielded, batch after batch
YieldedRows(tr) == Flatten([ i \in 1..Len(tr.ylog) |-> tr.ylog[i].rows ])

\* the source and the stage a numberized row was read from
RowSrcNo(row) == row.a \div 1000

RowStageNo(row) == (row.a % 1000) \div 100

\* the batches of one physical pass over the configured source, when it is static
PassBatches == CeilDiv(cfg.src_len, cfg.batcher.batch_sizes["TRAIN"])

C2_BatchSizeOfPhase ==
  cfg.batcher.kind = "Batcher"
  => \A t \in 1..Len(trav) : \A i \in 1..Len(trav[t].ylog) :
       LET n == Len(trav[t].ylog[i].rows)
           B == cfg.batcher.batch_sizes[trav[t].stage]
       IN  n = B \/ ( n < B /\ trav[t].ylog[i].last )

\* ------------------------------------------------------------ C3
\* C3: with in-memory caching, two successive complete traversals of
\* batches(EVAL) over the configured source yield the same numberized rows,
\* whatever the source returns on its physical reads.
C3_CacheMasksSource ==
  ( /\ cfg.in_memory
    /\ Len(trav) >= 2
    /\ \A t \in 1..2 : /\ trav[t].stage = "EVAL"
                       /\ trav[t].ds = "none"
                       /\ trav[t].pc = "done" )
  => SameRows(YieldedRows(trav[1]), YieldedRows(trav[2]))

\* ------------------------------------------------------------ C6
\* C6: a traversal batches(stage, data_source=D) yields only rows of D's stream
\* for that stage, after any earlier traversals of the same Data instance.
C6_ExplicitSourceUsed ==
  \A t \in 1..Len(trav) :
    trav[t].ds = "alt"
    => \A i \in 1..Len(YieldedRows(trav[t])) :
         /\ RowSrcNo(YieldedRows(trav[t])[i]) = SrcNo("alt")
         /\ RowStageNo(YieldedRows(trav[t])[i]) = StageNo(trav[t].stage)

\* ------------------------------------------------------------ C7
\* C7: for EVAL, TEST and TRAIN without an epoch size, a traversal that has been
\* pulled started on a cursor derived for it, and its first batch is the first
\* batch of that physical pass, whatever earlier traversals did or left
\* (stated for traversals that all read the configured source).
C7_TraversalStartsFresh ==
  \A t \in 1..Len(trav) :
    ( /\ ReturnsAtExhaustion(trav[t].stage, cfg.epoch_size)
      /\ trav[t].pc # "new"
      /\ \A u \in 1..Len(trav) : trav[u].ds = "none" )
    => /\ ~trav[t].reused
       /\ Len(trav[t].ylog) >= 1 => trav[t].ylog[1].pos = 1

\* ------------------------------------------------------------ C8
\* C8: with a sort field name that is no tensorizer, no cursor is ever stored
\* (construction or derivation fails) and no failure is raised by a pull of
\* the batch stream.
C8_BadSortKeyFailsFast ==
  cfg.sort_key \notin (Tensorizers \cup { NoKey })
  => /\ \A s \in Stages : batch[s] = 0
     /\ \A t \in 1..Len(trav) : trav[t].raised_in # "pull"

\* ------------------------------------------------------------ C11
\* C11: every batch a traversal of Data.batches yields, for every phase, is a
\* mapping whose keys are exactly the keys of the tensorizers dict, and every
\* batch handed to the tensorize step holds at least one row (each tensor's
\* recorded length is the row count of its batch, at least 1).
C11_BatchKeysAreTensorizers ==
  \A t \in 1..Len(trav) :
    /\ trav[t].count >= 1
       => /\ DOMAIN trav[t].out = Tensorizers
          /\ \A name \in Tensorizers :
               /\ trav[t].out[name][1] >= 1
               /\ trav[t].out[name][1] = Len(trav[t].ylog[Len(trav[t].ylog)].rows)
    /\ \A i \in 1..Len(trav[t].ylog) : trav[t].ylog[i].rows # << >>

\* a traversal of TEST suspended at its second batch, which holds both tensors
C11_Witness ==
  \E t \in 1..Len(trav) :
    /\ trav[t].stage = "TEST"
    /\ trav[t].pc = "at_yield"
    /\ trav[t].count = 2
    /\ DOMAIN trav[t].out = Tensorizers

\* ------------------------------------------------------------ C12
\* C12: zip_dicts(rows) returns a mapping whose keys are the union of the field
\* names of all rows; every column has len(rows) entries, entry i being row i's
\* value for the field, or None when row i lacks the field; for an empty list
\* the mapping has no columns.  Stated on the result of every call.
C12_ZipDictsColumns ==
  ended = "zip"
  => LET rows   == input
         zipped == emitted[1].out
     IN  /\ DOMAIN zipped = UNION { DOMAIN rows[i] : i \in 1..Len(rows) }
         /\ \A key \in DOMAIN zipped :
              /\ Len(zipped[key]) = Len(rows)
              /\ \A i \in 1..Len(rows) :
                   zipped[key][i] = ( IF key \in DOMAIN rows[i] THEN rows[i][key] ELSE None )
         /\ rows = << >> => DOMAIN zipped = {}

\* zip_dicts of three rows, the first lacking field "b" and the second field "a":
\* both columns hold an absent marker
C12_Witness ==
  /\ ended = "zip"
  /\ Len(input) = 3
  /\ "b" \notin DOMAIN input[1]
  /\ "a" \notin DOMAIN input[2]
  /\ DOMAIN emitted[1].out = {"a", "b"}
  /\ emitted[1].out["b"][1] = None
  /\ emitted[1].out["a"][2] = None

\* ------------------------------------------------------------ C17
\* C17: PoolingBatcher.batchify with batch size B >= 1 and a pool of P >= 1
\* batches, with or without a sort key and for every shuffle outcome: the
\* finished generator has emitted ceil(N/B) batches, none empty and none larger
\* than B, whose rows are a permutation of the N input rows; the batches of
\* pool k are the emitted batches (k-1)*P+1 .. and hold exactly the rows of
\* that pool, the last pool of r rows giving ceil(r/B) batches.
C17_PoolingEmitsEveryRowOnce ==
  ( /\ gen.status = "dead"
    /\ batcher.kind = "PoolingBatcher"
    /\ GenBatchSize >= 1
    /\ batcher.pool_num_batches >= 1 )
  => LET N  == Len(input)
         B  == GenBatchSize
         P  == batcher.pool_num_batches
     IN  /\ ended = "stop"
         /\ Len(emitted) = CeilDiv(N, B)
         /\ SameRows(Flatten([j \in 1..Len(emitted) |-> emitted[j].rows]), input)
         /\ \A j \in 1..Len(emitted) :
              /\ 1 <= Len(emitted[j].rows)
              /\ Len(emitted[j].rows) <= B
              /\ BatchRowCount(emitted[j].out) = Len(emitted[j].rows)
         /\ \A k \in 1..CeilDiv(N, B * P) :
              LET lo == (k - 1) * B * P
                  r  == Min(B * P, N - lo)
              IN  /\ (k - 1) * P + CeilDiv(r, B) <= Len(emitted)
                  /\ SameRows(Flatten([i \in 1..CeilDiv(r, B) |->
                                         emitted[(k - 1) * P + i].rows]),
                              SubSeq(input, lo + 1, lo + r))

\* a finished pass without a sort key over 3 rows, batch size 1 and pools of 2
\* batches: 3 batches, the first pool's two rows emitted in swapped order, the
\* last pool of one row emitted as one batch
C17_Witness ==
  /\ gen.status = "dead"
  /\ batcher.kind = "PoolingBatcher"
  /\ gen.sort_key = NoKey
  /\ GenBatchSize = 1
  /\ batcher.pool_num_batches = 2
  /\ Len(input) = 3
  /\ Len(emitted) = 3
  /\ input[1] # input[2]
  /\ emitted[1].rows = << input[2] >>
  /\ emitted[2].rows = << input[1] >>
  /\ emitted[3].rows = << input[3] >>

\* ------------------------------------------------------------ C13
\* C13: with an epoch size E >= 1 and a static TRAIN pass of M > E batches, the
\* first traversal of batches(TRAIN) ends at the epoch bound having dropped no
\* batch it pulled from the cursor, and the traversal after it resumes the same
\* cursor (derives none) at batch E + 1 of the pass: nothing skipped, nothing
\* repeated.
C13_EpochResumeSkipsNothing ==
  ( /\ Len(trav) = 2
    /\ trav[1].no = 1
    /\ Truthy(cfg.epoch_size)
    /\ ~cfg.src_mutates
    /\ PassBatches > cfg.epoch_size
    /\ \A t \in 1..2 : trav[t].stage = "TRAIN" /\ trav[t].ds = "none"
    /\ trav[1].pc = "done" )
  => /\ trav[1].dropped = 0
     /\ \A i \in 1..Len(trav[1].ylog) : trav[1].ylog[i].pos = i
     /\ Len(trav[2].ylog) >= 1
        => /\ trav[2].reused
           /\ trav[2].ylog[1].pos = cfg.epoch_size + 1

\* ------------------------------------------------------------ C14
\* C14: with in-memory caching, the cache entry of a phase is assigned at most
\* once over any sequence of traversals (the numberize pass over a phase's row
\* stream runs at most once per phase), for every row stream, an empty one
\* included.
C14_CacheFilledOnce ==
  cfg.in_memory => \A s \in Stages : numberized_cache[s].fills <= 1

\* ------------------------------------------------------------ C15
\* C15: with in-memory caching, a step in which the derivation of a phase's
\* cursor is aborted by a converter raising during numberization leaves the
\* cache (no partial list of rows is stored) and the cursors of all phases,
\* that phase's included, as they were.
C15_FailedDerivationStoresNothing ==
  [][ \A t \in 1..Len(trav) :
        ( /\ cfg.in_memory
          /\ Len(trav') = Len(trav)
          /\ trav[t].raised_in = "none"
          /\ trav'[t].raised_in = "derive" )
        => /\ numberized_cache' = numberized_cache
           /\ batch' = batch
           /\ heap' = heap ]_vars

\* a traversal of the phase with the bad row has failed in its derivation, two
\* rows into the stream, while another phase holds a cache entry and a live
\* cursor left by an earlier traversal; the failed phase holds neither
C15_Witness ==
  /\ cfg.in_memory
  /\ cfg.src_len = 2
  /\ ~cfg.src_mutates
  /\ Len(trav) = 2
  /\ trav[1].stage # cfg.bad
  /\ trav[1].ds = "none"
  /\ trav[1].pc = "at_yield"
  /\ batch[trav[1].stage] # 0
  /\ numberized_cache[trav[1].stage].present
  /\ trav[2].stage = cfg.bad
  /\ trav[2].ds = "none"
  /\ trav[2].raised_in = "derive"
  /\ batch[cfg.bad] = 0
  /\ ~numberized_cache[cfg.bad].present

\* ------------------------------------------------------------ C16
\* C16: after any number of passes of batchify (plain or pooling, with or
\* without a sort key) and of pad_and_tensorize_batches over it, the cached
\* list of a phase holds the numberized rows of one stream of that phase in
\* stream order, as when it was populated: row i is the numberized row of
\* position i, all rows of one source and one read.
C16_BatchingKeepsCachedRows ==
  \A s \in Stages :
    numberized_cache[s].present
    => LET rows == numberized_cache[s].rows
       IN  \A i \in 1..Len(rows) :
             /\ rows[i].a % 10 = i
             /\ rows[i].a - i = rows[1].a - 1
             /\ RowStageNo(rows[i]) = StageNo(s)
             /\ rows[i].b = (rows[i].a % 2) + 1

\* a finished pass of the pooling batcher with a sort key over a cached TRAIN
\* list of two rows: the batch holds them in descending order, the cache in
\* stream order
C16_Witness ==
  /\ cfg.in_memory
  /\ cfg.batcher.kind = "PoolingBatcher"
  /\ cfg.sort_key = "a"
  /\ Len(trav) >= 1
  /\ trav[1].stage = "TRAIN"
  /\ trav[1].pc = "done"
  /\ Len(trav[1].ylog) >= 1
  /\ Len(trav[1].ylog[1].rows) = 2
  /\ trav[1].ylog[1].rows[1].a > trav[1].ylog[1].rows[2].a
  /\ Len(numberized_cache["TRAIN"].rows) = 2
  /\ numberized_cache["TRAIN"].rows[1].a < numberized_cache["TRAIN"].rows[2].a

\* ------------------------------------------------------------ C18
\* C18: for EVAL, TEST and TRAIN without an epoch size, a traversal that has
\* ended has yielded the batches of exactly one physical pass (over a static
\* configured source: every row of the phase's stream once, batch after batch
\* from the first of the pass to its last), and when the latest traversal has
\* ended the cursor of its phase is cleared (stated for traversals that all
\* read the configured source).
C18_OnePassThenCleared ==
  \A t \in 1..Len(trav) :
    ( /\ ReturnsAtExhaustion(trav[t].stage, cfg.epoch_size)
      /\ trav[t].pc = "done"
      /\ ~cfg.src_mutates
      /\ \A u \in 1..Len(trav) : trav[u].ds = "none" )
    => /\ SameRows(YieldedRows(trav[t]),
                   numberize_rows(Stream(cfg, "cfg", trav[t].stage, 0)))
       /\ \A i \in 1..Len(trav[t].ylog) :
            /\ trav[t].ylog[i].pos = i
            /\ trav[t].ylog[i].last <=> i = Len(trav[t].ylog)
       /\ t = Len(trav) => batch[trav[t].stage] = 0

\* ------------------------------------------------------------ C19
\* C19: a traversal of batches(TRAIN) with epoch size E >= 1 that has ended has
\* yielded exactly E batches, also when another traversal of the same Data
\* instance (of EVAL, of TEST or of TRAIN) was started and pulled between two
\* of its pulls: under every interleaving of pulls.
C19_EpochExactUnderInterleaving ==
  \A t \in 1..Len(trav) :
    ( /\ trav[t].stage = "TRAIN"
      /\ Truthy(cfg.epoch_size)
      /\ trav[t].pc = "done" )
    => trav[t].count = cfg.epoch_size

\* ------------------------------------------------------------ C20
\* C20: every pull on a traversal of batches(TRAIN) with an epoch size
\* completes: a generator that has gone round `while True` to derive the next
\* physical pass eventually leaves the loop, by yielding a batch or by ending,
\* for every finite TRAIN stream, an empty one included.
C20_EveryPullCompletes ==
  ( \E t \in 1..Len(trav) : trav[t].pc = "loop" )
  ~> ( \A t \in 1..Len(trav) : trav[t].pc # "loop" )

====
